---- MODULE Spec2Model ----
(***************************************************************************)
(* State-machine model of mcp23017server.py: the command dispatcher        *)
(* (mcp23017broker), the bus driver and toggle coordinator                 *)
(* (i2cCommunication) and the calls they make into the persisted           *)
(* direction store (xmlParameterHandler).                                  *)
(*                                                                         *)
(* Threads: the dispatcher thread (main loop calling service_commands)     *)
(* and up to MaxWorkers PinToggler threads.  Every Python function is      *)
(* flattened into program-counter labels; one action is one atomic step    *)
(* between two points at which another thread can be scheduled.            *)
(***************************************************************************)
EXTENDS Integers, Sequences, FiniteSets, TLC

\* ------------------------------------------------------------------------
\* Program constants
\* ------------------------------------------------------------------------
MINBOARDID == 32
MAXBOARDID == 47
MINPIN == 0
MAXPIN == 16
IODIRA == 0
IODIRB == 1
IOCON == 10
GPIOA == 18
GPIOB == 19
ALLOUTPUTS == 255

FINDBOARD == "IDENTIFY"
GETDIRBIT == "GETDBIT"
GETDIRREGISTER == "GETDIRREG"
SETDIRBIT == "SETDBIT"
CLEARDIRBIT == "CLRDBIT"
GETIOPIN == "GETPIN"
GETIOREGISTER == "GETIOREG"
SETDATAPIN == "SETPIN"
CLEARDATAPIN == "CLRPIN"
TOGGLEPIN == "TOGGLE"

\* ------------------------------------------------------------------------
\* Bounds of the model
\* ------------------------------------------------------------------------
\* number of PinToggler threads that can be alive at the same time
MaxWorkers == 2
\* number of commands the dispatcher serves in one run
MaxCmds == 2
\* largest number of board entries in the configuration file at startup
MaxBootBoards == 2
\* largest number of commands served after a startup from a stored file
MaxBootCmds == 1

\* the dispatcher thread; toggle workers are 1..MaxWorkers
Dispatcher == 0
Workers == 1 .. MaxWorkers
Threads == {Dispatcher} \cup Workers
\* owner value of an unlocked threading.Lock
NoOwner == -1

\* boards that exist as hardware in the model (they may stop responding)
HwBoards == {32}
\* board fields a client may send, as text: 0x20 (a board on the bus), 0x2F
\* (MAXBOARDID), 48 in decimal (above the range) and a text that is no number
BoardInputs == {<<"0", "x", "2", "0">>, <<"0", "x", "2", "F">>, <<"4", "8">>, <<"2", "G">>}
\* pin / register fields a client may send, as text: two pins of one port (as
\* register index: port A and port B), the first value outside the pin range
\* and a text that is no number
ValueInputs == {<<"0">>, <<"0", "x", "0", "1">>, <<"1", "6">>, <<"p", "7">>}
\* verbs a client may send: the ten known verbs and an unknown one
KnownVerbs == {FINDBOARD, GETIOPIN, SETDIRBIT, CLEARDIRBIT, GETDIRBIT, SETDATAPIN, CLEARDATAPIN, GETIOREGISTER, GETDIRREGISTER, TOGGLEPIN}
VerbInputs == KnownVerbs \cup {"BLINK"}

Registers == {IODIRA, IODIRB, GPIOA, GPIOB}

\* ------------------------------------------------------------------------
\* Pure helpers
\* ------------------------------------------------------------------------
RECURSIVE Pow2(_)
Pow2(n) == IF n = 0 THEN 1 ELSE 2 * Pow2(n - 1)

\* (v & (1 << n)) != 0
BitIsSet(v, n) == (v \div Pow2(n)) % 2 = 1
\* v | (1 << n)
OrBit(v, n) == IF BitIsSet(v, n) THEN v ELSE v + Pow2(n)
\* v & ~(1 << n)
AndNotBit(v, n) == IF BitIsSet(v, n) THEN v - Pow2(n) ELSE v

HexDigit(d) == <<"0","1","2","3","4","5","6","7","8","9","A","B","C","D","E","F">>[d + 1]

\* '0x{:0{}X}'.format(v, 2): the sign counts for the width of a negative number
FormatHexByte(v) ==
    IF v >= 0
    THEN <<"0", "x", HexDigit((v \div 16) % 16), HexDigit(v % 16)>>
    ELSE <<"0", "x", "-", HexDigit((-v) % 16)>>

\* 'x' in the_board
HasX(s) == \E i \in 1 .. Len(s) : s[i] = "x"
\* the base service_commands passes to int()
BaseOf(s) == IF HasX(s) THEN 16 ELSE 10
\* the digits int(s, base) reads: base 16 lets the text start with 0x.  (A
\* sign, blanks, underscores and lower-case digits are in no input here.)
DigitsOf(s) ==
    IF BaseOf(s) = 16 /\ Len(s) >= 2 /\ s[1] = "0" /\ s[2] = "x" THEN SubSeq(s, 3, Len(s)) ELSE s
IsDigit(c, base) == \E d \in 0 .. base - 1 : HexDigit(d) = c
DigitValue(c) == CHOOSE d \in 0 .. 15 : HexDigit(d) = c
\* int(s, base) does not raise ValueError
IntParses(s) ==
    /\ Len(DigitsOf(s)) > 0
    /\ \A i \in 1 .. Len(DigitsOf(s)) : IsDigit(DigitsOf(s)[i], BaseOf(s))
RECURSIVE DigitsValue(_, _)
DigitsValue(ds, base) ==
    IF ds = <<>> THEN 0
    ELSE DigitsValue(SubSeq(ds, 1, Len(ds) - 1), base) * base + DigitValue(ds[Len(ds)])
\* int(s, 16) if 'x' in s else int(s, 10)
IntOf(s) == DigitsValue(DigitsOf(s), BaseOf(s))

\* "Pin values up to 7 go to port A, higher values go to port B"
\* a direction port that is port A for every pin
DirPortOfPin_PortA(pin_nr) == IODIRA

DirPortOfPin(pin_nr) == IF pin_nr > 7 THEN IODIRB ELSE IODIRA
DataPortOfPin(pin_nr) == IF pin_nr > 7 THEN GPIOB ELSE GPIOA
\* a bit number that is the pin number on both ports
BitOfPin_NoWrap(pin_nr) == pin_nr

BitOfPin(pin_nr) == IF pin_nr > 7 THEN pin_nr % 8 ELSE pin_nr
\* register reads: index 0 is port A, every other index is port B
DirPortOfReg(reg_nr) == IF reg_nr > 0 THEN IODIRB ELSE IODIRA
DataPortOfReg(reg_nr) == IF reg_nr > 0 THEN GPIOB ELSE GPIOA

\* ------------------------------------------------------------------------
\* State
\* ------------------------------------------------------------------------
VARIABLES
    hw,             \* hw[b][r]: byte held by register r of board b (the device)
    responsive,     \* boards that currently answer on the I2C bus
    managedboards,  \* i2cCommunication.managedboards (a Python list)
    i2cMutex,       \* owner of i2cCommunication._i2cMutex
    toggle_set,     \* i2cCommunication._toggle_set
    toggle_mutex,   \* owner of i2cCommunication._toggle_mutex
    confdata,       \* xmlParameterHandler._confdata: the list of board elements
    pc,             \* pc[t]: position of thread t
    call,           \* call[t]: the bus-driver function t is in, with its arguments
    data_byte,      \* data_byte[t]: local of Set/Clear between the read and the write
    timedOut,       \* timedOut[t]: how the WaitForPinToBeReleased of t expired
    cmd,            \* the command service_commands dequeued
    return_error,   \* mcp23017broker._return_error
    return_byte,    \* local of ProcessCommand
    response,       \* the record ReturnResponse wrote for the command
    served,         \* number of commands dequeued so far
    expect,         \* history: the pin writes applied in commit order
    touched,        \* history: what the dispatcher did for the current command
    phase,          \* history: phase[w] of the toggle of worker w
    raw,            \* command_list: the fields of the dequeued record, as text
    audit,          \* history: response records and bus-driver calls of the
                    \* current command, failed IOCON writes of the run
    boot,           \* InitBusAtBoot: its loop variables and its history
    redis,          \* the Commands table of Redis, and the clients' clock
    before          \* history: before[w], the level of the pin when worker w locked it

vars == <<hw, responsive, managedboards, i2cMutex, toggle_set, toggle_mutex, confdata, pc, call, data_byte, timedOut, cmd, return_error, return_byte, response, served, expect, touched, phase, raw, audit, boot, redis, before>>

NoCall == [fn |-> "none", board |-> 0, pin |-> 0]
NoCmd == [verb |-> "", board |-> 0, value |-> 0]
NoResponse == [datavalue |-> <<>>, response |-> <<>>]
\* no record dequeued
NoRaw == [command |-> "", boardnr |-> <<>>, pinnr |-> <<>>]
\* history: nothing done yet
NoAudit == [responses |-> 0, dispatches |-> 0, iocon_failed |-> 0]
\* InitBusAtBoot has returned; store0 is the store it started from
Booted(store0) == [i |-> 0, p |-> 0, name |-> 0, ports |-> <<>>, attempted |-> {}, failed |-> {}, store0 |-> store0]
\* no command pending, no timestamp used yet
NoCommands == [now |-> 0, commands |-> {}]
\* the MCP23017 powers on with every pin an input and every latch low
PowerOnRegisters == [r \in Registers |-> IF r \in {IODIRA, IODIRB} THEN 255 ELSE 0]

ReadVerbs == {GETDIRBIT, FINDBOARD, GETDIRREGISTER, GETIOPIN, GETIOREGISTER}
DirWriteVerbs == {SETDIRBIT, CLEARDIRBIT}
DataWriteVerbs == {SETDATAPIN, CLEARDATAPIN}
SetFns == {"SetI2CDirPin", "SetI2CPin"}
ClearFns == {"ClearI2CDirPin", "ClearI2CPin"}
WriteFns == SetFns \cup ClearFns
PinReadFns == {"GetI2CDirPin", "GetI2CPin"}
RegReadFns == {"GetI2CDirRegister", "GetI2CIORegister"}
ReadFns == PinReadFns \cup RegReadFns

\* the state when main() enters its loop with an empty configuration file:
\* no board managed, no toggle, no stored direction state
Init ==
    /\ hw = [b \in HwBoards |-> PowerOnRegisters]
    /\ responsive = HwBoards
    /\ managedboards = <<>>
    /\ i2cMutex = NoOwner
    /\ toggle_set = {}
    /\ toggle_mutex = NoOwner
    /\ confdata = <<>>
    /\ pc = [t \in Threads |-> "idle"]
    /\ call = [t \in Threads |-> NoCall]
    /\ data_byte = [t \in Threads |-> 0]
    /\ timedOut = [t \in Threads |-> "no"]
    /\ cmd = NoCmd
    /\ return_error = <<>>
    /\ return_byte = <<>>
    /\ response = NoResponse
    /\ served = 0
    /\ expect = [b \in HwBoards |-> PowerOnRegisters]
    /\ touched = {}
    /\ phase = [w \in Workers |-> "none"]
    /\ raw = NoRaw
    /\ audit = NoAudit
    /\ boot = Booted(<<>>)
    /\ redis = NoCommands
    /\ before = [w \in Workers |-> 0]

\* ------------------------------------------------------------------------
\* The device on the bus
\* ------------------------------------------------------------------------
\* SMBus.read_byte_data / write_byte_data raise when the board does not answer
BusAnswers(board_id) == board_id \in responsive

\* a board is removed from the bus, or stops answering
BoardFails(b) ==
    /\ b \in responsive
    /\ responsive' = responsive \ {b}
    /\ UNCHANGED <<hw, managedboards, i2cMutex, toggle_set, toggle_mutex, confdata, pc, call, data_byte, timedOut, cmd, return_error, return_byte, response, served, expect, touched, phase, raw, audit, boot, redis, before>>

\* ------------------------------------------------------------------------
\* Persisted direction store (xmlParameterHandler)
\* ------------------------------------------------------------------------
\* The store is the list of the <board> elements of the configuration file,
\* in file order; an element has the board number and the direction bytes of
\* its two ports (port A, port B).  Board names are distinct.
\* position of the element of board_id, 0 when there is none
KeyIndex(cd, board_id) ==
    IF \E i \in 1 .. Len(cd) : cd[i].name = board_id
    THEN CHOOSE i \in 1 .. Len(cd) : cd[i].name = board_id /\ \A j \in 1 .. i - 1 : cd[j].name # board_id
    ELSE 0

HasKey(cd, board_id) == KeyIndex(cd, board_id) # 0

\* self._confdata[0].remove(child)
RemoveAt(cd, i) == SubSeq(cd, 1, i - 1) \o SubSeq(cd, i + 1, Len(cd))

\* the loop of DeleteKey: it removes the matching child from the list it is
\* iterating and goes on with the next position
RECURSIVE DeleteFrom(_, _, _)
DeleteFrom(cd, board_id, i) ==
    IF i > Len(cd) THEN cd
    ELSE IF cd[i].name = board_id THEN DeleteFrom(RemoveAt(cd, i), board_id, i + 1)
    ELSE DeleteFrom(cd, board_id, i + 1)

DeleteKey(cd, board_id) == DeleteFrom(cd, board_id, 1)

\* get_board_dir creates the key with both ports ALLOUTPUTS when it is absent
\* (CreateNewKey: DeleteKey, then append)
WithKey(cd, board_id) ==
    IF HasKey(cd, board_id) THEN cd
    ELSE Append(DeleteKey(cd, board_id), [name |-> board_id, ports |-> <<ALLOUTPUTS, ALLOUTPUTS>>])

\* a store that keeps one byte for both ports
PortIndex_First(port_id) == 1

PortIndex(port_id) == IF port_id = IODIRB THEN 2 ELSE 1

set_board_pin(cd, board_id, pin_nr) ==
    LET k == WithKey(cd, board_id)
        e == KeyIndex(k, board_id)
        i == PortIndex(DirPortOfPin(pin_nr))
    IN [k EXCEPT ![e].ports[i] = OrBit(k[e].ports[i], BitOfPin(pin_nr))]

clear_board_pin(cd, board_id, pin_nr) ==
    LET k == WithKey(cd, board_id)
        e == KeyIndex(k, board_id)
        i == PortIndex(DirPortOfPin(pin_nr))
    IN [k EXCEPT ![e].ports[i] = AndNotBit(k[e].ports[i], BitOfPin(pin_nr))]

\* ------------------------------------------------------------------------
\* Control flow between the flattened functions
\* ------------------------------------------------------------------------
\* managedboards.index(board_id) does not raise
Managed(board_id) == \E i \in 1 .. Len(managedboards) : managedboards[i] = board_id

\* where a function continues when CheckInitializeBoard returned True
AfterInit(fn) ==
    IF fn = "PinToggler" THEN "w_acq"
    ELSE IF fn = "IdentifyBoard" THEN "id_read"
    ELSE IF fn \in ReadFns THEN "rd"
    ELSE "rmw_read"

\* an entry that goes on without CheckInitializeBoard
Entry_Unchecked(fn, board_id) == AfterInit(fn)

\* entry of a Get/Set/Clear function, IdentifyBoard or PinToggler: the lookup
\* of CheckInitializeBoard.  (The pin check of the Get/Set/Clear functions
\* always passes: service_commands lets only 0..15 through.)
Entry(fn, board_id) == IF Managed(board_id) THEN AfterInit(fn) ELSE "ci"

\* PinToggler: acquire_state is never passed, so current_state = 0x0: the pin
\* is driven high by SetI2CPin and restored low by ClearI2CPin
CurrentState == 0
DriveFn(current_state) == IF current_state = 0 THEN "SetI2CPin" ELSE "ClearI2CPin"
RestoreFn(current_state) == IF current_state = 0 THEN "ClearI2CPin" ELSE "SetI2CPin"

\* the verbs after whose bus call ProcessCommand waits for the pin
WaitsAfterCall(task) == task \in DirWriteVerbs

\* where thread t continues when the bus-driver function it is in returns
AfterReturn(t) ==
    IF t = Dispatcher
    THEN (IF WaitsAfterCall(cmd.verb) THEN "w_acq" ELSE "respond")
    ELSE (IF call[t].fn = DriveFn(CurrentState) THEN "sleep" ELSE "remove")

\* the function thread t is in returns v: ProcessCommand formats the value of
\* a read verb, PinToggler ignores the value
ReturnTo(t, v) ==
    /\ pc' = [pc EXCEPT ![t] = AfterReturn(t)]
    /\ return_byte' = IF t = Dispatcher /\ cmd.verb \in ReadVerbs THEN FormatHexByte(v) ELSE return_byte

\* the error value of the function thread t is in
ErrorValue(t) == IF call[t].fn \in ReadFns THEN -1 ELSE 0

\* history bookkeeping: the dispatcher did something of kind tag
Touch(t, tag) == IF t = Dispatcher THEN touched \cup {tag} ELSE touched
\* history bookkeeping: the dispatcher made a bus access of kind tag to
\* board_id, and the access raised if the board does not answer
TouchBus(t, tag, board_id) ==
    IF t # Dispatcher THEN touched
    ELSE Touch(t, tag) \cup (IF board_id \in responsive THEN {} ELSE {"failed"})

\* ------------------------------------------------------------------------
\* Command dispatcher (mcp23017broker)
\* ------------------------------------------------------------------------
ErrVerb == "Error: first command must be one of the following IDENTIFY, GETDBIT, GETDIRREG, SETDBIT, CLRDBIT, GETPIN, GETIOREG, SETPIN, CLRPIN, TOGGLE. "
ErrBoard == "Error: Board ID not in range [0x20, 0x2E]. "
ErrValue == "Error: registervalue not in range [0x00, 0x10]. "

\* the_board in range(MINBOARDID, MAXBOARDID): the upper end is excluded
BoardInRange(the_board) == MINBOARDID <= the_board /\ the_board < MAXBOARDID
\* a range check that takes MAXPIN itself for a pin
ValueInRange_Inclusive(the_value) == MINPIN <= the_value /\ the_value <= MAXPIN

\* the_value in range(MINPIN, MAXPIN)
ValueInRange(the_value) == MINPIN <= the_value /\ the_value < MAXPIN

\* a validation that stops at the first check that fails
ValidationErrors_FirstOnly(the_command, the_board, the_value) ==
    IF the_command \notin KnownVerbs THEN <<ErrVerb>>
    ELSE IF ~BoardInRange(the_board) THEN <<ErrBoard>>
    ELSE IF ~ValueInRange(the_value) THEN <<ErrValue>>
    ELSE <<>>

\* the three checks of service_commands, each appending to _return_error
ValidationErrors(the_command, the_board, the_value) ==
    (IF the_command \notin KnownVerbs THEN <<ErrVerb>> ELSE <<>>)
    \o (IF ~BoardInRange(the_board) THEN <<ErrBoard>> ELSE <<>>)
    \o (IF ~ValueInRange(the_value) THEN <<ErrValue>> ELSE <<>>)

\* the bus-driver function ProcessCommand calls for a verb
VerbFn(task) ==
    CASE task = GETDIRBIT -> "GetI2CDirPin"
      [] task = FINDBOARD -> "IdentifyBoard"
      [] task = GETDIRREGISTER -> "GetI2CDirRegister"
      [] task = SETDIRBIT -> "SetI2CDirPin"
      [] task = CLEARDIRBIT -> "ClearI2CDirPin"
      [] task = GETIOPIN -> "GetI2CPin"
      [] task = GETIOREGISTER -> "GetI2CIORegister"
      [] task = SETDATAPIN -> "SetI2CPin"
      [] task = CLEARDATAPIN -> "ClearI2CPin"
      [] OTHER -> "ToggleI2CPin"

\* the first worker slot that runs no thread
FreeWorker == CHOOSE w \in Workers : pc[w] = "idle" /\ \A v \in Workers : v < w => pc[v] # "idle"

\* a ProcessCommand that runs the toggle in the dispatcher thread
FirstStep_ToggleInline(task, board_id) ==
    IF task \in DirWriteVerbs THEN Entry(VerbFn(task), board_id) ELSE "w_acq"

\* what ProcessCommand does first for a verb: SETDBIT and CLRDBIT call the bus
\* driver at once, TOGGLE calls ToggleI2CPin, every other verb first waits for
\* the pin to leave the toggle set
FirstStep(task, board_id) ==
    IF task \in DirWriteVerbs THEN Entry(VerbFn(task), board_id)
    ELSE IF task = TOGGLEPIN THEN "spawn"
    ELSE "w_acq"

\* where service_commands goes after the validation
Dispatch(err, task, board_id) == IF err = <<>> THEN FirstStep(task, board_id) ELSE "respond"

\* service_commands: GetNextCommand, the conversion of the board and the value
\* field, the validation, the branch on _return_error and the branch of
\* ProcessCommand on the verb.  The command is an input drawn from the
\* clients' choices.  int() is called outside every try block: a field that
\* is no number raises ValueError through service_commands into the loop of
\* main(), which has no handler, and the dispatcher thread ends.
service_commands(the_command, boardnr, pinnr) ==
    /\ pc[Dispatcher] = "idle"
    /\ served < MaxCmds
    /\ (the_command = TOGGLEPIN) => (\E w \in Workers : pc[w] = "idle")
    /\ served' = served + 1
    /\ raw' = [command |-> the_command, boardnr |-> boardnr, pinnr |-> pinnr]
    /\ IF IntParses(boardnr) /\ IntParses(pinnr)
       THEN LET the_board == IntOf(boardnr)
                the_value == IntOf(pinnr)
            IN
            /\ cmd' = [verb |-> the_command, board |-> the_board, value |-> the_value]
            /\ return_error' = ValidationErrors(the_command, the_board, the_value)
            /\ pc' = [pc EXCEPT ![Dispatcher] = Dispatch(return_error', the_command, the_board)]
            /\ call' = [call EXCEPT ![Dispatcher] = [fn |-> VerbFn(the_command), board |-> the_board, pin |-> the_value]]
            /\ audit' = IF return_error' = <<>> /\ the_command \in DirWriteVerbs
                         THEN [audit EXCEPT !.dispatches = @ + 1] ELSE audit
       ELSE /\ pc' = [pc EXCEPT ![Dispatcher] = "crashed"]
            /\ UNCHANGED <<cmd, return_error, call, audit>>
    /\ UNCHANGED <<hw, responsive, managedboards, i2cMutex, toggle_set, toggle_mutex, confdata, data_byte, timedOut, return_byte, response, expect, touched, phase, boot>>

\* a client's command that the dispatcher takes as soon as it is sent: the
\* Commands table is as before
ServeSentCommand(the_command, boardnr, pinnr) ==
    /\ service_commands(the_command, boardnr, pinnr)
    /\ UNCHANGED <<redis, before>>

\* ToggleI2CPin: checks the pin number, starts a PinToggler thread and
\* returns; the new thread begins with the lookup of CheckInitializeBoard
ToggleI2CPin ==
    /\ pc[Dispatcher] = "spawn"
    /\ audit' = [audit EXCEPT !.dispatches = @ + 1]
    /\ IF cmd.value < 0 \/ cmd.value > 15
       THEN /\ pc' = [pc EXCEPT ![Dispatcher] = "respond"]
            /\ UNCHANGED <<call, phase, touched>>
       ELSE /\ pc' = [pc EXCEPT ![Dispatcher] = "respond", ![FreeWorker] = Entry("PinToggler", cmd.board)]
            /\ call' = [call EXCEPT ![FreeWorker] = [fn |-> "PinToggler", board |-> cmd.board, pin |-> cmd.value]]
            /\ phase' = [phase EXCEPT ![FreeWorker] = "spawned"]
            /\ touched' = touched \cup {"toggle"}
    /\ UNCHANGED <<hw, responsive, managedboards, i2cMutex, toggle_set, toggle_mutex, confdata, data_byte, timedOut, cmd, return_error, return_byte, response, served, expect, raw, boot, redis, before>>

\* SETDBIT / CLRDBIT after the wait: set_board_pin / clear_board_pin
StoreDirBit ==
    /\ pc[Dispatcher] = "store"
    /\ confdata' = IF cmd.verb = SETDIRBIT
                   THEN set_board_pin(confdata, cmd.board, cmd.value)
                   ELSE clear_board_pin(confdata, cmd.board, cmd.value)
    /\ touched' = touched \cup {"store"}
    /\ pc' = [pc EXCEPT ![Dispatcher] = "respond"]
    /\ UNCHANGED <<hw, responsive, managedboards, i2cMutex, toggle_set, toggle_mutex, call, data_byte, timedOut, cmd, return_error, return_byte, response, served, expect, phase, raw, audit, boot, redis, before>>

\* the except clause of ProcessCommand: DeleteKey(board_id), return return_byte
ProcessCommandExcept ==
    /\ pc[Dispatcher] = "except"
    /\ confdata' = DeleteKey(confdata, cmd.board)
    /\ touched' = touched \cup {"store"}
    /\ pc' = [pc EXCEPT ![Dispatcher] = "respond"]
    /\ UNCHANGED <<hw, responsive, managedboards, i2cMutex, toggle_set, toggle_mutex, call, data_byte, timedOut, cmd, return_error, return_byte, response, served, expect, phase, raw, audit, boot, redis, before>>

\* the record service_commands hands to ReturnResponse: the result of
\* ProcessCommand with 'OK', or '0x00' with the accumulated error text
ResponseFor(err, data) ==
    IF err = <<>>
    THEN [datavalue |-> data, response |-> <<"OK">>]
    ELSE [datavalue |-> <<"0", "x", "0", "0">>, response |-> err]

ReturnResponse ==
    /\ pc[Dispatcher] = "respond"
    /\ audit' = [audit EXCEPT !.responses = @ + 1]
    /\ response' = ResponseFor(return_error, return_byte)
    /\ pc' = [pc EXCEPT ![Dispatcher] = "sent"]
    /\ UNCHANGED <<hw, responsive, managedboards, i2cMutex, toggle_set, toggle_mutex, confdata, call, data_byte, timedOut, cmd, return_error, return_byte, served, expect, touched, phase, raw, boot, redis, before>>

\* service_commands returns and the loop of main() calls it again: the locals
\* of the finished call are gone, the response record is left to the client
\* (Redis expires it)
NextIteration ==
    /\ pc[Dispatcher] = "sent"
    /\ pc' = [pc EXCEPT ![Dispatcher] = "idle"]
    /\ call' = [call EXCEPT ![Dispatcher] = NoCall]
    /\ timedOut' = [timedOut EXCEPT ![Dispatcher] = "no"]
    /\ cmd' = NoCmd
    /\ return_error' = <<>>
    /\ return_byte' = <<>>
    /\ response' = NoResponse
    /\ touched' = {}
    /\ raw' = NoRaw
    /\ audit' = [audit EXCEPT !.responses = 0, !.dispatches = 0]
    /\ UNCHANGED <<hw, responsive, managedboards, i2cMutex, toggle_set, toggle_mutex, confdata, data_byte, served, expect, phase, boot, redis, before>>

\* ------------------------------------------------------------------------
\* Bus driver (i2cCommunication)
\* ------------------------------------------------------------------------
\* the register a function addresses
PortFor(fn, nr) ==
    IF fn \in {"GetI2CDirPin", "SetI2CDirPin", "ClearI2CDirPin"} THEN DirPortOfPin(nr)
    ELSE IF fn \in {"GetI2CPin", "SetI2CPin", "ClearI2CPin"} THEN DataPortOfPin(nr)
    ELSE IF fn = "GetI2CDirRegister" THEN DirPortOfReg(nr)
    ELSE DataPortOfReg(nr)

\* a CheckInitializeBoard that appends the board whatever the write did
ManagedAfterInit_Cached(ok, board_id) == Append(managedboards, board_id)

\* managedboards after the IOCON write: the append follows the write in the
\* try block, so a write that raises skips it
ManagedAfterInit(ok, board_id) == IF ok THEN Append(managedboards, board_id) ELSE managedboards

\* CheckInitializeBoard for a board not found in managedboards: one critical
\* section under the bus mutex (acquire, IOCON write, append, release), then
\* the branch of the calling function on the result
CheckInitializeBoard(t) ==
    /\ pc[t] = "ci"
    /\ i2cMutex = NoOwner
    /\ touched' = TouchBus(t, "init", call[t].board)
    /\ audit' = IF BusAnswers(call[t].board) THEN audit ELSE [audit EXCEPT !.iocon_failed = @ + 1]
    /\ managedboards' = ManagedAfterInit(BusAnswers(call[t].board), call[t].board)
    /\ IF BusAnswers(call[t].board)
       THEN /\ pc' = [pc EXCEPT ![t] = AfterInit(call[t].fn)]
            /\ UNCHANGED return_byte
       ELSE /\ IF call[t].fn = "PinToggler"
               THEN pc' = [pc EXCEPT ![t] = "t_end"] /\ UNCHANGED return_byte
               ELSE ReturnTo(t, ErrorValue(t))
    /\ UNCHANGED <<hw, responsive, i2cMutex, toggle_set, toggle_mutex, confdata, call, data_byte, timedOut, cmd, return_error, response, served, expect, phase, raw, boot, redis, before>>

\* IdentifyBoard: the register read, made without the bus mutex (the acquire
\* and the release are commented out)
IdentifyBoard(t) ==
    /\ pc[t] = "id_read"
    /\ touched' = TouchBus(t, "bus", call[t].board)
    /\ ReturnTo(t, IF BusAnswers(call[t].board) THEN 1 ELSE 0)
    /\ UNCHANGED <<hw, responsive, managedboards, i2cMutex, toggle_set, toggle_mutex, confdata, call, data_byte, timedOut, cmd, return_error, response, served, expect, phase, raw, audit, boot, redis, before>>

\* the value a Get function returns for the byte it read
ReadResult(fn, byte, nr) ==
    IF fn \in PinReadFns
    THEN (IF BitIsSet(byte, BitOfPin(nr)) THEN 1 ELSE 0)
    ELSE byte

\* Get functions: one critical section under the bus mutex (acquire,
\* read_byte_data, release), then the return
ReadRegister(t) ==
    /\ pc[t] = "rd"
    /\ i2cMutex = NoOwner
    /\ touched' = TouchBus(t, "bus", call[t].board)
    /\ ReturnTo(t, IF BusAnswers(call[t].board)
                   THEN ReadResult(call[t].fn, hw[call[t].board][PortFor(call[t].fn, call[t].pin)], call[t].pin)
                   ELSE -1)
    /\ UNCHANGED <<hw, responsive, managedboards, i2cMutex, toggle_set, toggle_mutex, confdata, call, data_byte, timedOut, cmd, return_error, response, served, expect, phase, raw, audit, boot, redis, before>>

\* the byte a Set function (OR) or a Clear function (AND NOT) computes
NewByte(fn, byte, nr) ==
    IF fn \in SetFns THEN OrBit(byte, BitOfPin(nr)) ELSE AndNotBit(byte, BitOfPin(nr))

\* a release that ends the critical section between the read and the write
MutexAfterRead_Released(t) == NoOwner

\* the owner of the bus mutex between the read and the write of a Set/Clear
\* function: both are in one try block, the release is in its finally
MutexAfterRead(t) == t

\* Set/Clear functions: self._i2cMutex.acquire() and
\* data_byte = read_byte_data(...) | or & the pin's bit; a read that raises
\* releases the mutex and returns False
WriteRead(t) ==
    /\ pc[t] = "rmw_read"
    /\ i2cMutex = NoOwner
    /\ touched' = TouchBus(t, "bus", call[t].board)
    /\ IF BusAnswers(call[t].board)
       THEN /\ data_byte' = [data_byte EXCEPT ![t] = NewByte(call[t].fn, hw[call[t].board][PortFor(call[t].fn, call[t].pin)], call[t].pin)]
            /\ pc' = [pc EXCEPT ![t] = "rmw_write"]
            /\ i2cMutex' = MutexAfterRead(t)
            /\ UNCHANGED return_byte
       ELSE /\ ReturnTo(t, 0)
            /\ UNCHANGED <<data_byte, i2cMutex>>
    /\ UNCHANGED <<hw, responsive, managedboards, toggle_set, toggle_mutex, confdata, call, timedOut, cmd, return_error, response, served, expect, phase, raw, audit, boot, redis, before>>

\* history: the toggle of worker t after a write of t that the board took
PhaseAfterWrite(t) ==
    IF t \in Workers
    THEN [phase EXCEPT ![t] = IF call[t].fn = DriveFn(CurrentState) THEN "driven" ELSE "restored"]
    ELSE phase

\* a function that returns without the release
MutexAfterWrite_Kept(t) == i2cMutex

\* the finally clause of a Set/Clear function: self._i2cMutex.release(),
\* whether the write raised or not
MutexAfterWrite(t) == IF i2cMutex = t THEN NoOwner ELSE i2cMutex

\* Set/Clear functions: write_byte_data(board_id, port_id, data_byte), the
\* release, the return
WriteWrite(t) ==
    /\ pc[t] = "rmw_write"
    /\ i2cMutex' = MutexAfterWrite(t)
    /\ data_byte' = [data_byte EXCEPT ![t] = 0]
    /\ touched' = TouchBus(t, "bus", call[t].board)
    /\ IF BusAnswers(call[t].board)
       THEN /\ hw' = [hw EXCEPT ![call[t].board][PortFor(call[t].fn, call[t].pin)] = data_byte[t]]
            /\ expect' = [expect EXCEPT ![call[t].board][PortFor(call[t].fn, call[t].pin)] = NewByte(call[t].fn, @, call[t].pin)]
            /\ phase' = PhaseAfterWrite(t)
            /\ ReturnTo(t, 1)
       ELSE /\ ReturnTo(t, 0)
            /\ UNCHANGED <<hw, expect, phase>>
    /\ UNCHANGED <<responsive, managedboards, toggle_set, toggle_mutex, confdata, call, timedOut, cmd, return_error, response, served, raw, audit, boot, redis, before>>

\* ------------------------------------------------------------------------
\* Toggle coordinator (WaitForPinToBeReleased, PinToggler)
\* ------------------------------------------------------------------------
\* lock_if_free: ProcessCommand passes False, PinToggler passes True
LockIfFree(t) == t \in Workers

\* an insertion that does not look at the set first
PinIsFree_Unchecked(ts, board_id, pin_nr) == TRUE

\* (board_id, pin_nr) not in self._toggle_set
PinIsFree(ts, board_id, pin_nr) == <<board_id, pin_nr>> \notin ts

\* self._toggle_mutex.acquire(blocking = True, timeout = COMMAND_TIMEOUT)
WaitAcquire(t) ==
    /\ pc[t] = "w_acq"
    /\ toggle_mutex = NoOwner
    /\ toggle_mutex' = t
    /\ pc' = [pc EXCEPT ![t] = "w_check"]
    /\ UNCHANGED <<hw, responsive, managedboards, i2cMutex, toggle_set, confdata, call, data_byte, timedOut, cmd, return_error, return_byte, response, served, expect, touched, phase, raw, audit, boot, redis, before>>

\* where thread t continues when WaitForPinToBeReleased raises: the except
\* clause of ProcessCommand; PinToggler logs and ends
AfterRaise(t) == IF t = Dispatcher THEN "except" ELSE "t_end"

\* the acquire of the toggle mutex gives up after COMMAND_TIMEOUT: acquired is
\* False, and the time check that follows finds the time-out exceeded
WaitAcquireTimeout(t) ==
    /\ pc[t] = "w_acq"
    /\ toggle_mutex # NoOwner
    /\ timedOut' = [timedOut EXCEPT ![t] = "mutex"]
    /\ pc' = [pc EXCEPT ![t] = AfterRaise(t)]
    /\ UNCHANGED <<hw, responsive, managedboards, i2cMutex, toggle_set, toggle_mutex, confdata, call, data_byte, cmd, return_error, return_byte, response, served, expect, touched, phase, raw, audit, boot, redis, before>>

\* a time check made only in an iteration that found the pin free
WaitOutcome_CheckedWhenFree(expired, keep) ==
    IF keep THEN "again" ELSE IF expired THEN "raise" ELSE "return"

\* a time check that ends the loop without raising
WaitOutcome_NoRaise(expired, keep) == IF keep /\ ~expired THEN "again" ELSE "return"

\* the time check that ends every iteration: it raises when the time-out is
\* exceeded, whatever the membership test found; else the loop goes on while
\* keep_checking
WaitOutcome(expired, keep) ==
    IF expired THEN "raise" ELSE IF keep THEN "again" ELSE "return"

\* where thread t continues when WaitForPinToBeReleased returns
AfterWait(t) ==
    IF t = Dispatcher
    THEN (IF WaitsAfterCall(cmd.verb) THEN "store" ELSE Entry(call[t].fn, call[t].board))
    ELSE Entry(DriveFn(CurrentState), call[t].board)

\* an iteration that goes on without the release
MutexAfterCheck_Kept(t) == t

\* self._toggle_mutex.release(), which ends the critical section of every
\* iteration that acquired
MutexAfterCheck(t) == NoOwner

\* history: the level of the data bit of a pin, 0 or 1
PinLevel(board_id, pin_nr) ==
    IF BitIsSet(hw[board_id][DataPortOfPin(pin_nr)], BitOfPin(pin_nr)) THEN 1 ELSE 0

\* history: what the wait had found when its time ran out
ExpiredAs(t, free) ==
    IF ~free THEN "busy" ELSE IF LockIfFree(t) THEN "inserted" ELSE "free"

\* one iteration of the loop after the acquire: the membership test, the
\* insertion when lock_if_free, keep_checking = False, the release, and the
\* time check.  Whether (datetime.now() - checking_time).total_seconds()
\* exceeds max(COMMAND_TIMEOUT, TOGGLEDELAY) is the environment's choice.
WaitForPinToBeReleased(t) ==
    /\ pc[t] = "w_check"
    /\ toggle_mutex' = MutexAfterCheck(t)
    /\ \E expired \in BOOLEAN :
        LET free == PinIsFree(toggle_set, call[t].board, call[t].pin)
            outcome == WaitOutcome(expired, ~free)
        IN
        /\ toggle_set' = IF free /\ LockIfFree(t) THEN toggle_set \cup {<<call[t].board, call[t].pin>>} ELSE toggle_set
        /\ timedOut' = [timedOut EXCEPT ![t] = IF expired THEN ExpiredAs(t, free) ELSE @]
        /\ pc' = [pc EXCEPT ![t] = IF outcome = "raise" THEN AfterRaise(t)
                                   ELSE IF outcome = "again" THEN "w_acq"
                                   ELSE AfterWait(t)]
        /\ call' = [call EXCEPT ![t].fn = IF outcome = "return" /\ t \in Workers THEN DriveFn(CurrentState) ELSE @]
        /\ audit' = IF outcome = "return" /\ t = Dispatcher /\ ~WaitsAfterCall(cmd.verb)
                     THEN [audit EXCEPT !.dispatches = @ + 1] ELSE audit
        /\ before' = IF outcome = "return" /\ t \in Workers
                      THEN [before EXCEPT ![t] = PinLevel(call[t].board, call[t].pin)]
                      ELSE before
    /\ UNCHANGED <<hw, responsive, managedboards, i2cMutex, confdata, data_byte, cmd, return_error, return_byte, response, served, expect, touched, phase, raw, boot, redis>>

\* PinToggler: time.sleep(TOGGLEDELAY), then the restoring call
ToggleSleep(w) ==
    /\ pc[w] = "sleep"
    /\ pc' = [pc EXCEPT ![w] = Entry(RestoreFn(CurrentState), call[w].board)]
    /\ call' = [call EXCEPT ![w].fn = RestoreFn(CurrentState)]
    /\ UNCHANGED <<hw, responsive, managedboards, i2cMutex, toggle_set, toggle_mutex, confdata, data_byte, timedOut, cmd, return_error, return_byte, response, served, expect, touched, phase, raw, audit, boot, redis, before>>

\* PinToggler: self._toggle_set.remove((board_id, pin_nr)), without the mutex
ToggleRelease(w) ==
    /\ pc[w] = "remove"
    /\ toggle_set' = toggle_set \ {<<call[w].board, call[w].pin>>}
    /\ pc' = [pc EXCEPT ![w] = "t_end"]
    /\ UNCHANGED <<hw, responsive, managedboards, i2cMutex, toggle_mutex, confdata, call, data_byte, timedOut, cmd, return_error, return_byte, response, served, expect, touched, phase, raw, audit, boot, redis, before>>

\* the PinToggler thread ends
ThreadEnds(w) ==
    /\ pc[w] = "t_end"
    /\ pc' = [pc EXCEPT ![w] = "idle"]
    /\ call' = [call EXCEPT ![w] = NoCall]
    /\ timedOut' = [timedOut EXCEPT ![w] = "no"]
    /\ phase' = [phase EXCEPT ![w] = "none"]
    /\ before' = [before EXCEPT ![w] = 0]
    /\ UNCHANGED <<hw, responsive, managedboards, i2cMutex, toggle_set, toggle_mutex, confdata, data_byte, cmd, return_error, return_byte, response, served, expect, touched, raw, audit, boot, redis>>

\* ------------------------------------------------------------------------
\* Specification
\* ------------------------------------------------------------------------
Next ==
    \/ \E v \in VerbInputs, b \in BoardInputs, n \in ValueInputs : ServeSentCommand(v, b, n)
    \/ ToggleI2CPin
    \/ StoreDirBit
    \/ ProcessCommandExcept
    \/ ReturnResponse
    \/ NextIteration
    \/ \E t \in Threads : CheckInitializeBoard(t)
    \/ \E t \in Threads : IdentifyBoard(t)
    \/ \E t \in Threads : ReadRegister(t)
    \/ \E t \in Threads : WriteRead(t)
    \/ \E t \in Threads : WriteWrite(t)
    \/ \E t \in Threads : WaitAcquire(t)
    \/ \E t \in Threads : WaitAcquireTimeout(t)
    \/ \E t \in Threads : WaitForPinToBeReleased(t)
    \/ \E w \in Workers : ToggleSleep(w)
    \/ \E w \in Workers : ToggleRelease(w)
    \/ \E w \in Workers : ThreadEnds(w)
    \/ \E b \in HwBoards : BoardFails(b)

Spec == Init /\ [][Next]_vars

\* the steps thread t takes by itself, once it is scheduled: all of its code
\* but the dequeue, which waits for a client, and the giving up of an acquire,
\* which waits for the clock
ThreadStep(t) ==
    \/ CheckInitializeBoard(t)
    \/ IdentifyBoard(t)
    \/ ReadRegister(t)
    \/ WriteRead(t)
    \/ WriteWrite(t)
    \/ WaitAcquire(t)
    \/ WaitForPinToBeReleased(t)
    \/ (t = Dispatcher /\ (ToggleI2CPin \/ StoreDirBit \/ ProcessCommandExcept \/ ReturnResponse \/ NextIteration))
    \/ (t \in Workers /\ (ToggleSleep(t) \/ ToggleRelease(t) \/ ThreadEnds(t)))

\* the threads are scheduled by the operating system: a thread that can take
\* a step does not stay without one for ever
LiveSpec == Spec /\ \A t \in Threads : WF_vars(ThreadStep(t))

\* the iteration of WaitForPinToBeReleased whose time check raises
TimeRunsOut(t) == WaitForPinToBeReleased(t) /\ pc'[t] = AfterRaise(t)

\* the clock that datetime.now() reads goes on: a thread that keeps coming
\* back to the time check finds max(COMMAND_TIMEOUT, TOGGLEDELAY) exceeded
ClockSpec == LiveSpec /\ \A t \in Threads : SF_vars(TimeRunsOut(t))

\* ------------------------------------------------------------------------
\* Startup: main() runs InitBusAtBoot on the configuration file it finds,
\* before the broker exists and before any toggle thread can be started.
\* ------------------------------------------------------------------------
\* board names found in a configuration file: one that is on the bus and two
\* that were removed before booting
BootNames == HwBoards \cup {33, 34}
\* direction bytes found for the two ports of an entry
BootPorts == {<<ALLOUTPUTS, ALLOUTPUTS>>, <<240, 15>>}

BootEntries == [name : BootNames, ports : BootPorts]

Distinct(cd) == \A i, j \in 1 .. Len(cd) : i # j => cd[i].name # cd[j].name

\* the files read_parameter_file can load: a list of board elements with
\* distinct names, each with its two ports
BootStores ==
    {cd \in UNION {[1 .. n -> BootEntries] : n \in 0 .. MaxBootBoards} : Distinct(cd)}

BootInit ==
    /\ hw = [b \in HwBoards |-> PowerOnRegisters]
    /\ responsive = HwBoards
    /\ managedboards = <<>>
    /\ i2cMutex = NoOwner
    /\ toggle_set = {}
    /\ toggle_mutex = NoOwner
    /\ confdata \in BootStores
    /\ pc = [t \in Threads |-> IF t = Dispatcher THEN "boot" ELSE "idle"]
    /\ call = [t \in Threads |-> NoCall]
    /\ data_byte = [t \in Threads |-> 0]
    /\ timedOut = [t \in Threads |-> "no"]
    /\ cmd = NoCmd
    /\ return_error = <<>>
    /\ return_byte = <<>>
    /\ response = NoResponse
    /\ served = 0
    /\ expect = [b \in HwBoards |-> PowerOnRegisters]
    /\ touched = {}
    /\ phase = [w \in Workers |-> "none"]
    /\ raw = NoRaw
    /\ audit = NoAudit
    /\ boot = [Booted(confdata) EXCEPT !.i = 1]
    /\ redis = NoCommands
    /\ before = [w \in Workers |-> 0]

\* for board in boarddata: the iterator takes the element at its position in
\* the live list and advances; past the end, InitBusAtBoot returns and main()
\* goes on to serve commands
InitBusAtBoot_NextBoard ==
    /\ pc[Dispatcher] = "boot"
    /\ boot.p = 0
    /\ IF boot.i <= Len(confdata)
       THEN /\ boot' = [boot EXCEPT !.name = confdata[boot.i].name, !.ports = confdata[boot.i].ports, !.i = @ + 1, !.p = 1]
            /\ UNCHANGED pc
       ELSE /\ pc' = [pc EXCEPT ![Dispatcher] = "idle"]
            /\ UNCHANGED boot
    /\ UNCHANGED <<hw, responsive, managedboards, i2cMutex, toggle_set, toggle_mutex, confdata, call, data_byte, timedOut, cmd, return_error, return_byte, response, served, expect, touched, phase, raw, audit, redis, before>>

\* WriteI2CDir(board_id, port_id, newvalue) succeeds when CheckInitializeBoard
\* does and the write and the verification read are answered
WriteI2CDir(board_id) == BusAnswers(board_id)

RegistersAfterWrite(regs, ok, board_id, port_id, newvalue) ==
    IF ok THEN [regs EXCEPT ![board_id][port_id] = newvalue] ELSE regs

\* for port in board: one WriteI2CDir call, and DeleteKey when it failed
InitBusAtBoot_WritePort ==
    /\ pc[Dispatcher] = "boot"
    /\ boot.p \in {1, 2}
    /\ LET ok == WriteI2CDir(boot.name)
           port_id == IF boot.p = 2 THEN IODIRB ELSE IODIRA
       IN /\ managedboards' = IF Managed(boot.name) THEN managedboards ELSE ManagedAfterInit(ok, boot.name)
          /\ hw' = RegistersAfterWrite(hw, ok, boot.name, port_id, boot.ports[boot.p])
          /\ expect' = RegistersAfterWrite(expect, ok, boot.name, port_id, boot.ports[boot.p])
          /\ confdata' = IF ok THEN confdata ELSE DeleteKey(confdata, boot.name)
          /\ boot' = [boot EXCEPT !.attempted = @ \cup {<<boot.name, boot.p>>},
                                  !.failed = IF ok THEN @ ELSE @ \cup {boot.name},
                                  !.p = IF boot.p = 1 THEN 2 ELSE 0]
    /\ UNCHANGED <<responsive, i2cMutex, toggle_set, toggle_mutex, pc, call, data_byte, timedOut, cmd, return_error, return_byte, response, served, touched, phase, raw, audit, redis, before>>

BootNext ==
    \/ InitBusAtBoot_NextBoard
    \/ InitBusAtBoot_WritePort
    \/ \E b \in HwBoards : BoardFails(b)

BootSpec == BootInit /\ [][BootNext]_vars

\* main(): InitBusAtBoot, then the loop that serves commands.  The broker is
\* created when InitBusAtBoot has returned, so no command is dequeued and no
\* toggle thread exists before.
ServeAfterBoot == Next /\ served' <= MaxBootCmds

StartNext ==
    \/ InitBusAtBoot_NextBoard
    \/ InitBusAtBoot_WritePort
    \/ ServeAfterBoot

StartSpec == BootInit /\ [][StartNext]_vars

\* ------------------------------------------------------------------------
\* The pin-addressed verbs over all sixteen pins: the dispatcher alone, no
\* toggle, the registers of the board as the server finds them.
\* ------------------------------------------------------------------------
PinVerbs == {SETDIRBIT, CLEARDIRBIT, GETDIRBIT, SETDATAPIN, CLEARDATAPIN, GETIOPIN}
\* the verbs that take the value field for a register index
RegisterVerbs == {GETDIRREGISTER, GETIOREGISTER}

\* the pin field as a client writes it, in decimal
PinText(n) == IF n < 10 THEN <<HexDigit(n)>> ELSE <<"1", HexDigit(n - 10)>>
PinInputs == {PinText(n) : n \in 0 .. 15}

\* register contents the board can hold when the server starts: the power-on
\* values, or what an earlier run left
LeftRegisters == [r \in Registers |-> IF r = IODIRA THEN 165 ELSE IF r = IODIRB THEN 90 ELSE IF r = GPIOA THEN 60 ELSE 193]

PinInit ==
    /\ hw \in [HwBoards -> {PowerOnRegisters, LeftRegisters}]
    /\ responsive = HwBoards
    /\ managedboards = <<>>
    /\ i2cMutex = NoOwner
    /\ toggle_set = {}
    /\ toggle_mutex = NoOwner
    /\ confdata = <<>>
    /\ pc = [t \in Threads |-> "idle"]
    /\ call = [t \in Threads |-> NoCall]
    /\ data_byte = [t \in Threads |-> 0]
    /\ timedOut = [t \in Threads |-> "no"]
    /\ cmd = NoCmd
    /\ return_error = <<>>
    /\ return_byte = <<>>
    /\ response = NoResponse
    /\ served = 0
    /\ expect = hw
    /\ touched = {}
    /\ phase = [w \in Workers |-> "none"]
    /\ raw = NoRaw
    /\ audit = NoAudit
    /\ boot = Booted(<<>>)
    /\ redis = NoCommands
    /\ before = [w \in Workers |-> 0]

PinNext ==
    \/ \E v \in PinVerbs \cup RegisterVerbs, n \in PinInputs : ServeSentCommand(v, <<"0", "x", "2", "0">>, n)
    \/ StoreDirBit
    \/ ProcessCommandExcept
    \/ ReturnResponse
    \/ NextIteration
    \/ CheckInitializeBoard(Dispatcher)
    \/ ReadRegister(Dispatcher)
    \/ WriteRead(Dispatcher)
    \/ WriteWrite(Dispatcher)
    \/ WaitAcquire(Dispatcher)
    \/ WaitForPinToBeReleased(Dispatcher)
    \/ \E b \in HwBoards : BoardFails(b)

PinSpec == PinInit /\ [][PinNext]_vars

\* ------------------------------------------------------------------------
\* The Commands table: clients put records under the timestamp of the
\* sending, Redis expires them, service_commands takes the first key.
\* ------------------------------------------------------------------------
\* the keys clients make of successive readings of the clock: the text of the
\* seconds since the epoch, as Python writes a float.  The nine leading
\* digits, the same in every key of these years, are left out.
TimeStamps ==
    << <<"1", ".", "5">>, <<"1", ".", "7", "5">>, <<"1", ".", "8">>, <<"1", ".", "8", "5">>, <<"2", ".", "0">> >>

\* what clients send in this part: the two commands of a click on a pin
QueueVerbs == {CLEARDIRBIT, CLEARDATAPIN}

\* SendCommand of a client: id = the clock, hset(id, mapping)
SendCommand(whichCommand) ==
    /\ \E i \in redis.now + 1 .. Len(TimeStamps) :
        redis' = [now |-> i,
                  commands |-> redis.commands \cup
                      {[id |-> TimeStamps[i], command |-> whichCommand, boardnr |-> <<"0", "x", "2", "0">>, pinnr |-> <<"0">>]}]
    /\ UNCHANGED <<hw, responsive, managedboards, i2cMutex, toggle_set, toggle_mutex, confdata, pc, call, data_byte, timedOut, cmd, return_error, return_byte, response, served, expect, touched, phase, raw, audit, boot, before>>

\* the expiration the client set on the record runs out
Expire ==
    /\ \E r \in redis.commands : redis' = [redis EXCEPT !.commands = @ \ {r}]
    /\ UNCHANGED <<hw, responsive, managedboards, i2cMutex, toggle_set, toggle_mutex, confdata, pc, call, data_byte, timedOut, cmd, return_error, return_byte, response, served, expect, touched, phase, raw, audit, boot, before>>

\* the byte of a character of a key
CharCode(c) == IF c = "." THEN 46 ELSE 48 + DigitValue(c)

\* the order of rkeys.sort(): Redis returns the keys as bytes, and bytes
\* compare byte by byte, a prefix before its extensions
RECURSIVE BytesLess(_, _)
BytesLess(a, b) ==
    IF b = <<>> THEN FALSE
    ELSE IF a = <<>> THEN TRUE
    ELSE IF CharCode(Head(a)) # CharCode(Head(b)) THEN CharCode(Head(a)) < CharCode(Head(b))
    ELSE BytesLess(Tail(a), Tail(b))

\* a choice of the last key of the sorted list
FirstKey_Last(table) == CHOOSE r \in table : \A q \in table \ {r} : BytesLess(q.id, r.id)

\* rkeys.sort(); id = rkeys[0]
FirstKey(table) == CHOOSE r \in table : \A q \in table \ {r} : BytesLess(r.id, q.id)

\* service_commands on a table that is not empty: GetNextCommand reads the
\* record of the first key and deletes it, then the conversion, the
\* validation and the dispatch as above
ServeNextCommand ==
    /\ redis.commands # {}
    /\ LET datarecord == FirstKey(redis.commands)
       IN /\ service_commands(datarecord.command, datarecord.boardnr, datarecord.pinnr)
          /\ redis' = [redis EXCEPT !.commands = @ \ {datarecord}]
    /\ UNCHANGED before

QueueNext ==
    \/ \E c \in QueueVerbs : SendCommand(c)
    \/ Expire
    \/ ServeNextCommand
    \/ StoreDirBit
    \/ ProcessCommandExcept
    \/ ReturnResponse
    \/ NextIteration
    \/ CheckInitializeBoard(Dispatcher)
    \/ WriteRead(Dispatcher)
    \/ WriteWrite(Dispatcher)
    \/ WaitAcquire(Dispatcher)
    \/ WaitForPinToBeReleased(Dispatcher)
    \/ \E b \in HwBoards : BoardFails(b)

QueueSpec == Init /\ [][QueueNext]_vars

\* ------------------------------------------------------------------------
\* Vocabulary of the properties
\* ------------------------------------------------------------------------
TypeOK ==
    /\ i2cMutex \in Threads \cup {NoOwner}
    /\ toggle_mutex \in Threads \cup {NoOwner}
    /\ \A b \in HwBoards : \A r \in Registers : hw[b][r] \in 0 .. 255

\* worker w runs a PinToggler thread for (b, p)
Active(w) == pc[w] # "idle"
OnPin(w, b, p) == call[w].board = b /\ call[w].pin = p

\* worker w is between its insertion into the toggle set and its removal from
\* it: in its drive call, its sleep, its restore call or before the remove
Holding(w) == pc[w] \in {"ci", "rmw_read", "rmw_write", "sleep", "remove"} /\ call[w].fn # "PinToggler"

\* thread t makes a step that is a bus transaction, or a part of one
BusPositions == {"ci", "id_read", "rd", "rmw_read", "rmw_write"}
BusStep(t) == pc[t] \in BusPositions /\ pc'[t] # pc[t]

\* the dispatcher makes the step that writes the register for its command
DispatcherWrites == pc[Dispatcher] = "rmw_write" /\ pc'[Dispatcher] # "rmw_write" /\ BusAnswers(cmd.board)

\* ------------------------------------------------------------------------
\* C1: whenever a thread reads or writes on the bus, no other thread holds
\* the bus mutex: no bus access falls between the start and the end of
\* another thread's register transaction.
\* ------------------------------------------------------------------------
C1_BusTransactionsNeverOverlap ==
    [][\A t \in Threads : BusStep(t) => i2cMutex \in {NoOwner, t}]_vars

\* ------------------------------------------------------------------------
\* C2: a Set/Clear function holds the bus mutex from its read to its write,
\* and every register holds exactly the pin writes made so far, applied in
\* the order they were committed, on top of its power-on value: no write of
\* one pin is lost to a concurrent write of another, unwritten bits keep
\* their value.
\* ------------------------------------------------------------------------
C2_NoLostUpdate ==
    /\ \A t \in Threads : pc[t] = "rmw_write" => i2cMutex = t
    /\ \A b \in HwBoards : \A r \in Registers : hw[b][r] = expect[b][r]

\* a toggle worker has driven its pin high and the dispatcher has set another
\* pin of the same register since: both bits are set
C2_Witness ==
    \E w \in Workers :
        /\ phase[w] = "driven"
        /\ pc[Dispatcher] = "sent"
        /\ cmd.verb = SETDATAPIN
        /\ cmd.board = call[w].board
        /\ cmd.value # call[w].pin
        /\ DataPortOfPin(cmd.value) = DataPortOfPin(call[w].pin)
        /\ BitIsSet(hw[cmd.board][DataPortOfPin(cmd.value)], BitOfPin(cmd.value))
        /\ BitIsSet(hw[cmd.board][DataPortOfPin(cmd.value)], BitOfPin(call[w].pin))

\* ------------------------------------------------------------------------
\* C3: two PinToggler workers for the same (board, pin) are never both
\* between obtaining the toggle-set entry and removing it.
\* ------------------------------------------------------------------------
C3_OneToggleInFlight ==
    \A w1 \in Workers : \A w2 \in Workers :
        (w1 # w2 /\ Holding(w1) /\ Holding(w2))
            => ~OnPin(w2, call[w1].board, call[w1].pin)

\* one worker sleeps between drive and restore while a second worker for the
\* same pin is in WaitForPinToBeReleased
C3_Witness ==
    \E w1 \in Workers : \E w2 \in Workers :
        /\ w1 # w2
        /\ pc[w1] = "sleep"
        /\ pc[w2] \in {"w_acq", "w_check"}
        /\ OnPin(w2, call[w1].board, call[w1].pin)

\* ------------------------------------------------------------------------
\* C4: the dispatcher never performs the bus write of SETPIN, CLRPIN, SETDBIT
\* or CLRDBIT on (board, pin) while (board, pin) is in the toggle set.
\* ------------------------------------------------------------------------
C4_NoWriteWhileToggleLocked ==
    [][(DispatcherWrites /\ cmd.verb \in DataWriteVerbs \cup DirWriteVerbs)
            => <<cmd.board, cmd.value>> \notin toggle_set]_vars

\* ------------------------------------------------------------------------
\* C5: when no toggle worker for (board, pin) is alive, (board, pin) is not
\* in the toggle set.
\* ------------------------------------------------------------------------
C5_NoLeakedToggleLock ==
    \A e \in toggle_set : \E w \in Workers : Active(w) /\ OnPin(w, e[1], e[2])

\* ------------------------------------------------------------------------
\* C6: the dispatcher never performs the bus write of a SETPIN or CLRPIN on
\* (board, pin) while the worker of an earlier TOGGLE of that pin holds the
\* pin and has not completed its restore write (that is, before its drive
\* write or between its drive and its restore write).
\* ------------------------------------------------------------------------
C6_SetPinNotInsideToggle ==
    [][(DispatcherWrites /\ cmd.verb \in DataWriteVerbs)
            => \A w \in Workers :
                   (Holding(w) /\ OnPin(w, cmd.board, cmd.value)) => phase[w] = "restored"]_vars

C8_TimeoutReportedToClient ==
    (pc[Dispatcher] = "sent" /\ timedOut[Dispatcher] = "busy") => response.response # <<"OK">>

\* ------------------------------------------------------------------------
\* C9: after WaitForPinToBeReleased timed out, the dispatcher goes to its
\* except clause and its answer only, and has made no bus transaction for a
\* SETPIN, CLRPIN or read verb; a toggle worker ends without a drive or
\* restore write.
\* ------------------------------------------------------------------------
C9_NoOperationAfterTimeout ==
    /\ timedOut[Dispatcher] # "no" =>
          /\ pc[Dispatcher] \in {"except", "respond", "sent"}
          /\ cmd.verb \in (DataWriteVerbs \cup ReadVerbs) => "bus" \notin touched
    /\ \A w \in Workers : timedOut[w] # "no" => (pc[w] = "t_end" /\ phase[w] = "spawned")

\* a SETPIN was answered after its wait for a pin held by a toggle timed out
C9_Witness ==
    /\ pc[Dispatcher] = "sent"
    /\ cmd.verb = SETDATAPIN
    /\ timedOut[Dispatcher] = "busy"
    /\ <<cmd.board, cmd.value>> \in toggle_set

\* ------------------------------------------------------------------------
\* C10: a command with an unknown verb, a board outside 0x20..0x2F or a value
\* outside 0..15 is answered with the accumulated error text and '0x00', and
\* the dispatcher does nothing else for it: no bus transaction, no board
\* initialization, no toggle, no call of the store.
\* ------------------------------------------------------------------------
FailsValidation(c) ==
    \/ c.verb \notin KnownVerbs
    \/ c.board < 32 \/ c.board > 47
    \/ c.value < 0 \/ c.value > 15

C10_InvalidCommandTouchesNothing ==
    (cmd # NoCmd /\ FailsValidation(cmd)) =>
        /\ pc[Dispatcher] \in {"respond", "sent"}
        /\ touched = {}
        /\ return_error # <<>>
        /\ pc[Dispatcher] = "sent" => response = [datavalue |-> <<"0", "x", "0", "0">>, response |-> return_error]

\* a SETPIN for a board above the range with a pin above the range was
\* answered while a toggle was in flight
C10_Witness ==
    /\ pc[Dispatcher] = "sent"
    /\ cmd = [verb |-> SETDATAPIN, board |-> 48, value |-> 16]
    /\ Len(response.response) = 2
    /\ \E w \in Workers : pc[w] = "sleep"

\* ------------------------------------------------------------------------
\* C11: a command whose board or value field is no hex or decimal number is
\* answered with an error response, the dispatcher touches no hardware for
\* it and goes on serving commands.
\* ------------------------------------------------------------------------
Unparseable(r) == r # NoRaw /\ (~IntParses(r.boardnr) \/ ~IntParses(r.pinnr))

C11_UnparseableFieldAnswered ==
    Unparseable(raw) =>
        /\ pc[Dispatcher] \in {"respond", "sent"}
        /\ touched = {}
        /\ pc[Dispatcher] = "sent" => response.response \notin {<<>>, <<"OK">>}

\* ------------------------------------------------------------------------
\* C12: every command service_commands dequeued has, when the dispatcher is
\* done with it, exactly one response record, and the dispatcher made at most
\* one call into the bus driver / toggle coordinator for it.
\* ------------------------------------------------------------------------
DoneWithCommand == raw # NoRaw /\ pc[Dispatcher] \in {"sent", "crashed"}

C12_OneResponsePerCommand ==
    /\ audit.responses <= 1
    /\ audit.dispatches <= 1
    /\ DoneWithCommand => (audit.responses = 1 /\ response # NoResponse)

\* ------------------------------------------------------------------------
\* C13: when the board initialization or a bus transaction failed during a
\* command (other than IDENTIFY, whose answer is the payload), the response
\* status is not 'OK' and the store holds no direction state for the board.
\* ------------------------------------------------------------------------
C13_BusFailureReported ==
    (pc[Dispatcher] = "sent" /\ "failed" \in touched /\ cmd.verb # FINDBOARD) =>
        /\ response.response # <<"OK">>
        /\ ~HasKey(confdata, cmd.board)

\* ------------------------------------------------------------------------
\* C14: for SETDBIT and CLRDBIT the dispatcher calls set_board_pin /
\* clear_board_pin only when the direction write on the bus succeeded.
\* ------------------------------------------------------------------------
C14_StoreOnlyAfterHardwareSuccess ==
    [][(pc[Dispatcher] = "store" /\ pc'[Dispatcher] # "store") => "failed" \notin touched]_vars

\* ------------------------------------------------------------------------
\* C15: a command with a known verb, a board address in 0x20..0x2F and a
\* value in 0..15 passes the validation and is handed to ProcessCommand.
\* ------------------------------------------------------------------------
C15_BoardRangeInclusive ==
    (cmd # NoCmd /\ cmd.verb \in KnownVerbs /\ cmd.board \in 32 .. 47 /\ cmd.value \in 0 .. 15)
        => return_error = <<>>

\* ------------------------------------------------------------------------
\* C16: a board that has not answered the IOCON write and does not answer on
\* the bus is never put in managedboards; an IDENTIFY for it is answered with
\* the payload 0x00; and every command for it that reaches the bus driver
\* makes the IOCON write again (a toggle worker for it is before that write
\* or has ended).
\* ------------------------------------------------------------------------
Unanswering(b) == b \notin responsive /\ ~Managed(b)

C16_AfterCommand ==
    /\ (pc[Dispatcher] \in {"respond", "sent"} /\ cmd # NoCmd /\ return_error = <<>>
            /\ Unanswering(cmd.board) /\ cmd.verb # TOGGLEPIN /\ timedOut[Dispatcher] = "no")
          => /\ {"init", "failed"} \subseteq touched
             /\ "bus" \notin touched
             /\ cmd.verb = FINDBOARD => return_byte = <<"0", "x", "0", "0">>
             /\ (cmd.verb = FINDBOARD /\ pc[Dispatcher] = "sent")
                    => response = [datavalue |-> <<"0", "x", "0", "0">>, response |-> <<"OK">>]
    /\ \A w \in Workers :
          (Active(w) /\ Unanswering(call[w].board)) => pc[w] \in {"ci", "t_end"}

C16_FailedInitNeverCached ==
    [][/\ C16_AfterCommand'
       /\ \A b \in HwBoards :
             Unanswering(b) => \A i \in 1 .. Len(managedboards') : managedboards'[i] # b]_vars

\* the second IDENTIFY for a board that never answered: both made the IOCON
\* write, both failed, the board is not managed
C16_Witness ==
    /\ served = 2
    /\ pc[Dispatcher] = "sent"
    /\ cmd.verb = FINDBOARD
    /\ Unanswering(cmd.board)
    /\ audit.iocon_failed = 2
    /\ \A w \in Workers : ~Active(w)
    /\ response = [datavalue |-> <<"0", "x", "0", "0">>, response |-> <<"OK">>]

\* ------------------------------------------------------------------------
\* C17: under every interleaving of the dispatcher and the toggle workers a
\* board gets one successful IOCON write and is in managedboards once.
\* ------------------------------------------------------------------------
C17_BoardInitializedOnce ==
    \A i \in 1 .. Len(managedboards) : \A j \in 1 .. Len(managedboards) :
        i # j => managedboards[i] # managedboards[j]

\* ------------------------------------------------------------------------
\* C18: a thread reads or writes a data or direction register only of a
\* board that is in managedboards; after a CheckInitializeBoard of the
\* dispatcher failed, the board is not in the list, the dispatcher makes no
\* bus access and a read verb gets the error value (0 for IDENTIFY, else -1).
\* ------------------------------------------------------------------------
RegisterPositions == {"id_read", "rd", "rmw_read", "rmw_write"}

C18_NoRegisterAccessBeforeInit ==
    /\ \A t \in Threads : pc[t] \in RegisterPositions => Managed(call[t].board)
    /\ ("init" \in touched /\ ~Managed(cmd.board)) =>
          /\ "failed" \in touched
          /\ "bus" \notin touched
          /\ pc[Dispatcher] \notin RegisterPositions
          /\ (cmd.verb \in ReadVerbs /\ pc[Dispatcher] \in {"respond", "sent"})
                => return_byte = FormatHexByte(IF cmd.verb = FINDBOARD THEN 0 ELSE -1)

\* a GETPIN was answered after its CheckInitializeBoard failed
C18_Witness ==
    /\ pc[Dispatcher] = "sent"
    /\ cmd.verb = GETIOPIN
    /\ "init" \in touched
    /\ "bus" \notin touched
    /\ ~Managed(cmd.board)
    /\ response.datavalue = <<"0", "x", "-", "1">>

\* ------------------------------------------------------------------------
\* C19: the dispatcher never performs the bus read of GETPIN, GETDBIT,
\* GETIOREG, GETDIRREG or IDENTIFY while (board, value) is in the toggle set.
\* ------------------------------------------------------------------------
DispatcherReads ==
    pc[Dispatcher] \in {"rd", "id_read"} /\ pc'[Dispatcher] # pc[Dispatcher] /\ BusAnswers(cmd.board)

C19_NoReadWhileToggleLocked ==
    [][(DispatcherReads /\ cmd.verb \in ReadVerbs) => <<cmd.board, cmd.value>> \notin toggle_set]_vars

\* C20: when InitBusAtBoot has finished, WriteI2CDir was attempted for both
\* ports of every board entry that was in the store at startup, the entries
\* after a failed one included, and the store holds exactly the entries of
\* the boards none of whose replays failed.
BootFinished == pc[Dispatcher] # "boot"

\* both replays of the entry were made and none failed
Replayed(e) == e.name \notin boot.failed /\ \A p \in {1, 2} : <<e.name, p>> \in boot.attempted

C20_BootReplaysEveryEntry ==
    BootFinished =>
        /\ \A k \in 1 .. Len(boot.store0) : \A p \in {1, 2} : <<boot.store0[k].name, p>> \in boot.attempted
        /\ confdata = SelectSeq(boot.store0, Replayed)

\* C21: InitBusAtBoot has returned when the first command is dequeued, and
\* the answer to a first command GETDIRREG for register 0 (register 1) of a
\* board that answers on the bus and had a stored entry at startup is the
\* stored byte of port A (port B).
StoredPorts(b) == boot.store0[KeyIndex(boot.store0, b)].ports

FirstAnswered(task, b) ==
    /\ pc[Dispatcher] = "sent"
    /\ served = 1
    /\ cmd.verb = task
    /\ cmd.board = b
    /\ return_error = <<>>
    /\ timedOut[Dispatcher] = "no"

C21_BootRestoresDirections ==
    /\ served > 0 => BootFinished
    /\ \A b \in HwBoards :
        (FirstAnswered(GETDIRREGISTER, b) /\ b \in responsive /\ HasKey(boot.store0, b) /\ cmd.value \in {0, 1})
            => response.datavalue = FormatHexByte(StoredPorts(b)[cmd.value + 1])

\* C22: on a board that answers, a Set (Clear) of a pin leaves the pin's
\* bit of the register kind at 1 (0) and every other bit of the board's
\* registers as it was, and a Get of a pin answers 0x01 or 0x00 as the pin's
\* bit of the register kind is 1 or 0: so a Get that follows a Set (Clear) of
\* the same pin answers 0x01 (0x00).
KindOfVerb(task) == IF task \in {SETDIRBIT, CLEARDIRBIT, GETDIRBIT} THEN "dir" ELSE "data"

\* the register and the bit a pin has by the datasheet: pins 0..7 are bits
\* 0..7 of port A, pins 8..15 are bits 0..7 of port B
PinPort(kind, p) ==
    IF kind = "dir" THEN (IF p < 8 THEN IODIRA ELSE IODIRB) ELSE (IF p < 8 THEN GPIOA ELSE GPIOB)

PinBit(p) == IF p < 8 THEN p ELSE p - 8

DispatcherAnswers == pc[Dispatcher] = "respond" /\ pc'[Dispatcher] = "sent"

\* the dispatcher's Get function made its bus read and the board answered
ReadSucceeded == return_error = <<>> /\ "bus" \in touched /\ "failed" \notin touched

WriteLaw ==
    (DispatcherWrites /\ cmd.verb \in PinVerbs) =>
        \A r \in Registers : \A k \in 0 .. 7 :
            BitIsSet(hw'[cmd.board][r], k) =
                IF r = PinPort(KindOfVerb(cmd.verb), cmd.value) /\ k = PinBit(cmd.value)
                THEN cmd.verb \in {SETDIRBIT, SETDATAPIN}
                ELSE BitIsSet(hw[cmd.board][r], k)

ReadLaw ==
    (DispatcherAnswers /\ cmd.verb \in {GETDIRBIT, GETIOPIN} /\ ReadSucceeded) =>
        response'.datavalue =
            IF BitIsSet(hw[cmd.board][PinPort(KindOfVerb(cmd.verb), cmd.value)], PinBit(cmd.value))
            THEN <<"0", "x", "0", "1">> ELSE <<"0", "x", "0", "0">>

C22_WriteBitThenReadBit == [][WriteLaw /\ ReadLaw]_vars

\* pin 10 was set from the power-on state and then read back
C22_Witness ==
    /\ pc[Dispatcher] = "sent"
    /\ served = 2
    /\ cmd = [verb |-> GETIOPIN, board |-> 32, value |-> 10]
    /\ hw[32][GPIOB] = 4
    /\ response = [datavalue |-> <<"0", "x", "0", "1">>, response |-> <<"OK">>]

\* C23: every pin-addressed operation takes pin p for bit p of port A when
\* p < 8 and for bit p - 8 of port B when p >= 8: the Set, Clear and Get of
\* the bus driver on the data and the direction registers, and the set and
\* clear of the stored direction bit; and GETIOREG (GETDIRREG) of register 0
\* or 1 answers the whole byte of port A or B, so that after SETPIN on pin 9
\* a GETIOREG of register 1 shows bit 1 and the bits that were set before.
DispatcherStores == pc[Dispatcher] = "store" /\ pc'[Dispatcher] # "store"

StoredByte(cd, b, p) == cd[KeyIndex(cd, b)].ports[IF p < 8 THEN 1 ELSE 2]

StoreLaw ==
    DispatcherStores =>
        /\ HasKey(confdata', cmd.board)
        /\ BitIsSet(StoredByte(confdata', cmd.board, cmd.value), PinBit(cmd.value)) = (cmd.verb = SETDIRBIT)

RegisterReadLaw ==
    (DispatcherAnswers /\ cmd.verb \in RegisterVerbs /\ cmd.value \in {0, 1} /\ ReadSucceeded) =>
        response'.datavalue =
            FormatHexByte(hw[cmd.board][IF cmd.verb = GETDIRREGISTER
                                        THEN (IF cmd.value = 0 THEN IODIRA ELSE IODIRB)
                                        ELSE (IF cmd.value = 0 THEN GPIOA ELSE GPIOB)])

C24_OnlyPortRegistersAccepted ==
    (pc[Dispatcher] = "sent" /\ cmd.verb \in RegisterVerbs /\ cmd.value \notin {0, 1}) =>
        /\ response.response # <<"OK">>
        /\ touched \cap {"init", "bus"} = {}

\* C25: the payload of the answer to a read verb is the text of a byte
\* 0x00..0xFF (0x00 or 0x01 for GETPIN, GETDBIT and IDENTIFY), also when the
\* bus access failed, and then the status is not 'OK'; the payload of the
\* answer to a write verb or to TOGGLE that passed the validation is empty.
IsByteText(s) ==
    /\ Len(s) = 4
    /\ s[1] = "0" /\ s[2] = "x"
    /\ IsDigit(s[3], 16) /\ IsDigit(s[4], 16)

BitTexts == {<<"0", "x", "0", "0">>, <<"0", "x", "0", "1">>}

C25_ReadPayloadIsByte ==
    pc[Dispatcher] = "sent" =>
        /\ cmd.verb \in ReadVerbs => IsByteText(response.datavalue)
        /\ cmd.verb \in {GETIOPIN, GETDIRBIT, FINDBOARD} => response.datavalue \in BitTexts
        /\ (cmd.verb \in ReadVerbs /\ "failed" \in touched) => response.response # <<"OK">>
        /\ (cmd.verb \in KnownVerbs \ ReadVerbs /\ return_error = <<>>) => response.datavalue = <<>>

\* C26: a call of service_commands takes exactly one record from the
\* Commands table, the one with the smallest timestamp of those pending, and
\* the record is off the table when the command is processed; the command
\* processed is the one of that record.  So the commands are served in the
\* order of their sending and none is served twice.
DotAt(s) == CHOOSE i \in 1 .. Len(s) : s[i] = "."

\* the number a key stands for, in hundredths of a second
Hundredths(s) ==
    LET f == SubSeq(s, DotAt(s) + 1, Len(s))
    IN DigitsValue(SubSeq(s, 1, DotAt(s) - 1), 10) * 100
       + DigitsValue(IF Len(f) = 1 THEN f \o <<"0">> ELSE f, 10)

Dequeues == served' = served + 1

Taken == redis.commands \ redis'.commands

C26_OldestCommandFirst ==
    [][Dequeues =>
        /\ Cardinality(Taken) = 1
        /\ redis'.commands \subseteq redis.commands
        /\ \A r \in Taken :
            /\ \A q \in redis.commands : Hundredths(r.id) <= Hundredths(q.id)
            /\ raw' = [command |-> r.command, boardnr |-> r.boardnr, pinnr |-> r.pinnr]]_vars

\* CLRDBIT is being processed while the CLRPIN sent after it, under a key
\* that is longer, waits on the table
C26_Witness ==
    /\ pc[Dispatcher] = "rmw_write"
    /\ raw.command = CLEARDIRBIT
    /\ \E q \in redis.commands : q.command = CLEARDATAPIN /\ q.id = <<"1", ".", "8", "5">>
    /\ redis.now = 4

\* C27: the error text of an answer holds one message for each check that
\* failed for the command (verb, board range, value range), in that order,
\* whatever the combination, and nothing else.
MessageIf(failed, text) == IF failed THEN <<text>> ELSE <<>>

ExpectedErrors ==
    MessageIf(cmd.verb \notin KnownVerbs, ErrVerb)
    \o MessageIf(~(cmd.board \in MINBOARDID .. MAXBOARDID - 1), ErrBoard)
    \o MessageIf(~(cmd.value \in MINPIN .. MAXPIN - 1), ErrValue)

C27_EveryFailedCheckReported ==
    pc[Dispatcher] = "sent" =>
        /\ return_error = ExpectedErrors
        /\ ExpectedErrors # <<>> => response = [datavalue |-> <<"0", "x", "0", "0">>, response |-> ExpectedErrors]

\* the three checks failed together
C27_Witness ==
    /\ pc[Dispatcher] = "sent"
    /\ cmd = [verb |-> "BLINK", board |-> 48, value |-> 16]
    /\ response.response = <<ErrVerb, ErrBoard, ErrValue>>

\* C28: a toggle worker that waits for a pin another toggle worker holds
\* gets the pin after the remove of that worker and makes its own drive and
\* restore writes, unless its wait ran out of time while the pin was still
\* taken (or on the mutex), the entry it waits for was left in the toggle set
\* by a thread that is gone, or the board stopped answering; and while it is
\* between its insertion and its remove no other worker for the same pin is.
LeftBehind(e) == \A t \in Threads : ~(Holding(t) /\ OnPin(t, e[1], e[2]))

WaitsBehind(w, v) ==
    /\ w # v
    /\ phase[w] = "spawned" /\ pc[w] \in {"w_acq", "w_check"}
    /\ Holding(v) /\ OnPin(v, call[w].board, call[w].pin)

Excused(w) ==
    \/ timedOut[w] \in {"busy", "mutex"}
    \/ /\ pc[w] \in {"w_acq", "w_check"}
       /\ LeftBehind(<<call[w].board, call[w].pin>>)
       /\ <<call[w].board, call[w].pin>> \in toggle_set
    \/ responsive # HwBoards

AloneOnPin(w) ==
    Holding(w) => \A v \in Workers \ {w} : ~(Holding(v) /\ OnPin(v, call[w].board, call[w].pin))

C28_SecondToggleFollows ==
    \A w \in Workers :
        /\ [](AloneOnPin(w))
        /\ (\E v \in Workers : WaitsBehind(w, v)) ~> (phase[w] = "restored" \/ Excused(w))

\* C29: a step of the dispatcher removes the stored entry of a board only
\* when a bus access it made to that board for the current command failed; a
\* command without a failed access, one whose wait for a pin ran out of time
\* included, leaves every stored entry in place.
C29_DeleteOnlyAfterBusFailure ==
    [][\A i \in 1 .. Len(confdata) :
          ~HasKey(confdata', confdata[i].name)
              => (confdata[i].name = cmd.board /\ "failed" \in touched)]_vars

\* C30: the store step of a SETDBIT or CLRDBIT for a pin 0..15 leaves an
\* entry for the board in which the pin's bit of the pin's port is 1 after
\* set_board_pin and 0 after clear_board_pin, every other bit of both ports is
\* what it was before (1 where the board had no entry), the entries of the
\* other boards are what they were, and the same call made again changes
\* nothing.
PriorByte(b, i) ==
    IF HasKey(confdata, b) THEN confdata[KeyIndex(confdata, b)].ports[i] ELSE ALLOUTPUTS

OtherEntries(cd, b) ==
    LET other(c) == c.name # b IN SelectSeq(cd, other)

SameCallAgain(cd) ==
    IF cmd.verb = SETDIRBIT
    THEN set_board_pin(cd, cmd.board, cmd.value)
    ELSE clear_board_pin(cd, cmd.board, cmd.value)

C30_StoreChangesOneBit ==
    [][(DispatcherStores /\ cmd.value \in 0 .. 15) =>
          LET e == KeyIndex(confdata', cmd.board)
              mine == IF cmd.value < 8 THEN 1 ELSE 2
          IN
          /\ HasKey(confdata', cmd.board)
          /\ \A i \in {1, 2} :
                /\ confdata'[e].ports[i] \in 0 .. 255
                /\ \A k \in 0 .. 7 :
                      BitIsSet(confdata'[e].ports[i], k) =
                          IF i = mine /\ k = PinBit(cmd.value)
                          THEN cmd.verb = SETDIRBIT
                          ELSE BitIsSet(PriorByte(cmd.board, i), k)
          /\ OtherEntries(confdata', cmd.board) = OtherEntries(confdata, cmd.board)
          /\ SameCallAgain(confdata') = confdata']_vars

\* CLRDBIT 3 and then CLRDBIT 10 were stored: one bit of each port is 0
C30_Witness ==
    /\ pc[Dispatcher] = "respond"
    /\ cmd = [verb |-> CLEARDIRBIT, board |-> 32, value |-> 10]
    /\ confdata = <<[name |-> 32, ports |-> <<247, 251>>]>>

\* C31: when ToggleI2CPin has started a worker for a TOGGLE and has returned
\* to the dispatcher, (board, pin) is in the toggle set.
C31_LockedWhenToggleReturns ==
    (pc[Dispatcher] = "respond" /\ cmd.verb = TOGGLEPIN /\ "toggle" \in touched)
        => <<cmd.board, cmd.value>> \in toggle_set

\* C32: a step that changes the toggle set is taken by the thread that holds
\* the toggle mutex.
C32_ToggleSetChangedUnderMutex ==
    [][toggle_set' # toggle_set =>
          \E t \in Threads : toggle_mutex = t /\ pc'[t] # pc[t]]_vars

\* C33: a thread owns the bus mutex only between the read and the write of
\* a Set/Clear function; a worker in its TOGGLEDELAY sleep and a thread in
\* WaitForPinToBeReleased do not own it, whether the transaction before
\* raised or not.
C33_BusMutexOnlyInsideTransaction ==
    \A t \in Threads :
        /\ i2cMutex = t => pc[t] = "rmw_write"
        /\ pc[t] \in {"sleep", "w_acq", "w_check"} => i2cMutex # t

\* a worker sleeps after a drive transaction that raised (nothing was
\* driven, the board does not answer) while the other worker polls the
\* toggle set: the bus mutex is free
C33_Witness ==
    \E w \in Workers : \E v \in Workers :
        /\ pc[w] = "sleep" /\ phase[w] = "spawned"
        /\ responsive = {}
        /\ pc[v] = "w_check"
        /\ i2cMutex = NoOwner

\* C34: when a worker has made its drive and its restore write on a board
\* that answers and is about to remove the pin from the toggle set, the data
\* bit of the pin is what it was when the worker locked the pin.
C34_ToggleRestoresLevel ==
    \A w \in Workers :
        (pc[w] = "remove" /\ phase[w] = "restored" /\ responsive = HwBoards)
            => PinLevel(call[w].board, call[w].pin) = before[w]

\* C35: a thread that is in WaitForPinToBeReleased leaves it, by a return or
\* by the raise of its time check, also when the entry it waits for stays in
\* the toggle set for ever.
InWait(t) == pc[t] \in {"w_acq", "w_check"}

C35_WaitTerminates ==
    \A t \in Threads : InWait(t) ~> ~InWait(t)

\* the dispatcher has left a wait by the raise, for a pin whose entry no
\* thread is going to remove
C35_Witness ==
    /\ pc[Dispatcher] = "except"
    /\ timedOut[Dispatcher] = "busy"
    /\ <<cmd.board, cmd.value>> \in toggle_set
    /\ LeftBehind(<<cmd.board, cmd.value>>)

\* C36: the iteration that ends a worker's WaitForPinToBeReleased(board,
\* pin, True) either returns with (board, pin) newly in the toggle set, or
\* raises with the toggle set as it was.
C36_InsertedOrRaised ==
    [][\A w \in Workers :
          (pc[w] = "w_check" /\ pc'[w] \notin {"w_check", "w_acq"}) =>
              IF pc'[w] = AfterRaise(w)
              THEN toggle_set' = toggle_set
              ELSE /\ <<call[w].board, call[w].pin>> \notin toggle_set
                   /\ toggle_set' = toggle_set \cup {<<call[w].board, call[w].pin>>}]_vars

\* C37: no thread owns the toggle mutex and the bus mutex together; the
\* owner of either mutex can take the step that releases it whatever the
\* other threads hold or wait for; and a thread that has work to do and can
\* take no step is waiting for the bus mutex, which another thread owns and
\* can release.
CanStep(t) == ENABLED (ThreadStep(t) \/ WaitAcquireTimeout(t))

C37_NoNestedMutexes ==
    \A t \in Threads :
        /\ ~(toggle_mutex = t /\ i2cMutex = t)
        /\ toggle_mutex = t => ENABLED WaitForPinToBeReleased(t)
        /\ i2cMutex = t => ENABLED WriteWrite(t)
        /\ (pc[t] \notin {"idle", "crashed"} /\ ~CanStep(t))
              => /\ pc[t] \in {"ci", "rd", "rmw_read"}
                 /\ i2cMutex \in Threads \ {t}
                 /\ ENABLED WriteWrite(i2cMutex)

\* the dispatcher waits for the bus mutex, which a worker owns between its
\* read and its write
C37_Witness ==
    \E w \in Workers :
        /\ pc[Dispatcher] = "rmw_read"
        /\ i2cMutex = w
        /\ pc[w] = "rmw_write"

\* C38: when InitBusAtBoot has returned and no command was served yet, and
\* when a SETDBIT or CLRDBIT has been answered, the stored bytes of every
\* board on the bus that has an entry in the store are the bytes of its two
\* direction registers.
InStep(b) ==
    HasKey(confdata, b) =>
        /\ confdata[KeyIndex(confdata, b)].ports[1] = hw[b][IODIRA]
        /\ confdata[KeyIndex(confdata, b)].ports[2] = hw[b][IODIRB]

AfterRestore == BootFinished /\ pc[Dispatcher] = "idle" /\ served = 0

AfterDirCommand == pc[Dispatcher] = "sent" /\ cmd.verb \in DirWriteVerbs /\ return_error = <<>>

C38_StoreMatchesHardware ==
    \A b \in HwBoards : (AfterRestore \/ AfterDirCommand) => InStep(b)

====
